---- MODULE Spec2Model ----
(***************************************************************************)
(* Model of src/banks_project.py: a one-shot ETL script.                   *)
(*   extract -> transform -> load_to_csv -> load_to_db -> 4 queries        *)
(* Numbers are fixed-point: a market cap and an exchange rate are both     *)
(* held in hundredths, so their exact product is in ten-thousandths.       *)
(***************************************************************************)
EXTENDS Integers, Sequences, FiniteSets, TLC

VARIABLES
    pc,        \* position of the caller (the __main__ block, or a library caller)
    web,       \* what requests.get(url) meets: fetch outcome and the HTML document
    rateFile,  \* data/exchange_rate.csv as found on disk
    raw,       \* the DataFrame object extract returned (<<>>: nothing yet, or it raised)
    df,        \* what the last extract/transform call returned (<<>>: nothing yet, or it raised)
    csvFile,   \* data/final_data.csv (<<>> while absent)
    dbTable,   \* table Largest_banks of Banks.db (<<>> while absent)
    log,       \* lines of code_log.txt, messages only
    log0,      \* the lines code_log.txt held when the process started
    conns,     \* sqlite3 connections currently open
    peakOpen,  \* largest number of connections open at the same time so far
    calls,     \* stages invoked so far, in order
    stdout,    \* what run_query printed: <<statement, result>> pairs
    error      \* the exception that ended the last call ("" when it returned)

vars == <<pc, web, rateFile, raw, df, csvFile, dbTable, log, log0, conns,
          peakOpen, calls, stdout, error>>

----------------------------------------------------------------------------
(* Bounds *)

MaxRows == 2

MaxCalls == 3

----------------------------------------------------------------------------
(* Cells and tables *)

Num(n) == [k |-> "num", n |-> n, s |-> ""]

Str(s) == [k |-> "str", n |-> 0, s |-> s]

NaN == [k |-> "nan", n |-> 0, s |-> ""]

Null == [k |-> "null", n |-> 0, s |-> ""]

Range(f) == {f[i] : i \in DOMAIN f}

IsPrefix(s, t) == Len(s) <= Len(t) /\ SubSeq(t, 1, Len(s)) = s

Max(a, b) == IF a >= b THEN a ELSE b

MC == "Market cap (US$ billion)"

BankName == "Bank name"

Currencies == <<"GBP", "EUR", "INR">>

DerivedCol(cur) ==
    CASE cur = "GBP" -> "MC_GBP_Billion"
      [] cur = "EUR" -> "MC_EUR_Billion"
      [] cur = "INR" -> "MC_INR_Billion"

HasCol(frame, name) == \E i \in 1..Len(frame.cols) : frame.cols[i] = name

Ok(frame) == [ok |-> TRUE, err |-> "", df |-> <<frame>>]

Err(e) == [ok |-> FALSE, err |-> e, df |-> <<>>]

----------------------------------------------------------------------------
(* transform: round(x[MC] * rates_dict[cur], 2) and DataFrame.assign *)

\* Faulty variant of Round2: cuts the digits off instead of rounding.
Round2Truncating(p) == p \div 100

\* round(v, 2) of a value p given in ten-thousandths; the result is in
\* hundredths. NumPy rounds to the nearest value, ties to the even one.
Round2(p) ==
    LET q == p \div 100
        r == p % 100
    IN  IF r < 50 THEN q
        ELSE IF r > 50 THEN q + 1
        ELSE IF q % 2 = 0 THEN q ELSE q + 1

\* One cell of round(x[MC] * rate, 2); NaN propagates through * and round.
Convert(cell, rate) ==
    IF cell.k = "num" THEN Num(Round2(cell.n * rate)) ELSE NaN

\* Faulty variant of Assign: the rows of the result come out in reverse order.
AssignReversing(frame, name, series) ==
    LET newcols == IF HasCol(frame, name) THEN frame.cols
                   ELSE Append(frame.cols, name)
        n == Len(frame.rows)
    IN  [cols |-> newcols,
         rows |-> [i \in 1..n |->
                    [c \in Range(newcols) |->
                        IF c = name THEN series[n + 1 - i]
                        ELSE frame.rows[n + 1 - i][c]]]]

\* DataFrame.assign(name=series) on a copy: an existing column of that name
\* is overwritten in place, a new one is appended; rows keep their order.
Assign(frame, name, series) ==
    LET newcols == IF HasCol(frame, name) THEN frame.cols
                   ELSE Append(frame.cols, name)
    IN  [cols |-> newcols,
         rows |-> [i \in 1..Len(frame.rows) |->
                    [c \in Range(newcols) |->
                        IF c = name THEN series[i] ELSE frame.rows[i][c]]]]

\* Faulty variant of AssignFrom: a missing rate is looked up with a default
\* (rates_dict.get) and yields a column of NaN instead of raising.
RECURSIVE AssignFromLenient(_, _, _)
AssignFromLenient(frame, rates, k) ==
    IF k > Len(Currencies) THEN Ok(frame)
    ELSE IF ~HasCol(frame, MC) THEN Err("KeyError")
    ELSE AssignFromLenient(
            Assign(frame, DerivedCol(Currencies[k]),
                   [i \in 1..Len(frame.rows) |->
                       IF Currencies[k] \in DOMAIN rates
                          THEN Convert(frame.rows[i][MC], rates[Currencies[k]])
                          ELSE NaN]),
            rates, k + 1)

\* The keyword arguments of df.assign, evaluated in order from the k-th on,
\* each lambda on the frame that already holds the earlier ones.
RECURSIVE AssignFrom(_, _, _)
AssignFrom(frame, rates, k) ==
    IF k > Len(Currencies) THEN Ok(frame)
    ELSE IF ~HasCol(frame, MC) THEN Err("KeyError")
    ELSE IF Currencies[k] \notin DOMAIN rates THEN Err("KeyError")
    ELSE AssignFrom(
            Assign(frame, DerivedCol(Currencies[k]),
                   [i \in 1..Len(frame.rows) |->
                       Convert(frame.rows[i][MC], rates[Currencies[k]])]),
            rates, k + 1)

\* transform(df, csv_path) up to the log line: result or the exception.
Transform(frame, rf) ==
    IF rf.kind = "missing" THEN Err("FileNotFoundError")
    ELSE IF rf.kind = "malformed" THEN Err("KeyError")
    ELSE AssignFrom(frame, rf.rates, 1)

----------------------------------------------------------------------------
(* extract: soup.find("table", attrs) and pd.read_html(str(table))[0] *)

DefaultAttribs == "wikitable"

EmptyFrame == [cols |-> <<>>, rows |-> <<>>]

\* soup.find: the first table element carrying the class, or None (<<>>).
RECURSIVE SoupFind(_, _)
SoupFind(doc, class) ==
    IF doc = <<>> THEN <<>>
    ELSE IF Head(doc).class = class THEN <<Head(doc)>>
    ELSE SoupFind(Tail(doc), class)

\* str(table): the element's markup, or the text "None" for None.
StrOf(found) ==
    IF found = <<>> THEN [text |-> "None", wellFormed |-> FALSE, table |-> EmptyFrame]
    ELSE [text |-> "<table>", wellFormed |-> found[1].wellFormed,
          table |-> found[1].table]

\* Faulty variant of ReadHtml: text without a table yields an empty frame.
ReadHtmlLenient(html) ==
    IF html.text = "None" \/ ~html.wellFormed THEN Ok(EmptyFrame)
    ELSE Ok(html.table)

\* pd.read_html(text)[0]: raises when the text holds no parsable table.
ReadHtml(html) ==
    IF html.text = "None" THEN Err("ValueError")
    ELSE IF ~html.wellFormed THEN Err("ValueError")
    ELSE Ok(html.table)

----------------------------------------------------------------------------
(* load_to_csv / load_to_db / run_query: serialisation and SQL *)

\* DataFrame.to_csv(index=False): header, then one line per row; a missing
\* value is written as the empty field.
CsvCell(cell) == IF cell.k \in {"nan", "null"} THEN Str("") ELSE cell

ToCsv(frame) ==
    [cols |-> frame.cols,
     rows |-> [i \in 1..Len(frame.rows) |->
                 [c \in Range(frame.cols) |-> CsvCell(frame.rows[i][c])]]]

\* A DataFrame cell as stored by SQLite: NaN becomes NULL.
SqlCell(cell) == IF cell.k = "nan" THEN Null ELSE cell

SqlRows(frame) ==
    [i \in 1..Len(frame.rows) |->
        [c \in Range(frame.cols) |-> SqlCell(frame.rows[i][c])]]

\* Faulty variant of ToSql: rows are added to an existing table whatever
\* if_exists says.
ToSqlAppending(frame, existing, if_exists) ==
    IF existing = <<>>
        THEN Ok([cols |-> frame.cols, rows |-> SqlRows(frame)])
    ELSE Ok([cols |-> existing[1].cols,
             rows |-> existing[1].rows \o SqlRows(frame)])

\* DataFrame.to_sql(name, con, if_exists=..., index=False) on the table
\* `existing` (<<>> when there is none).
ToSql(frame, existing, if_exists) ==
    IF existing = <<>> \/ if_exists = "replace"
        THEN Ok([cols |-> frame.cols, rows |-> SqlRows(frame)])
    ELSE IF if_exists = "append"
        THEN Ok([cols |-> existing[1].cols,
                 rows |-> existing[1].rows \o SqlRows(frame)])
    ELSE Err("ValueError")

\* The four statements of the __main__ block, in the order it issues them.
Queries ==
    << "SELECT * FROM Largest_banks",
       "SELECT AVG(MC_GBP_Billion) FROM Largest_banks",
       "SELECT \"Bank name\" from Largest_banks LIMIT 5",
       "PRAGMA table_info(Largest_banks);" >>

RowLimit == 5

RECURSIVE SumCol(_, _, _)
SumCol(rows, c, i) ==
    IF i > Len(rows) THEN 0
    ELSE (IF rows[i][c].k = "num" THEN rows[i][c].n ELSE 0) + SumCol(rows, c, i + 1)

CountCol(rows, c) == Cardinality({i \in 1..Len(rows) : rows[i][c].k = "num"})

\* cursor.execute(stmt); cursor.fetchall() on the table (<<>> when absent):
\* the result rows, each a tuple of cells, or the error SQLite raises.
\* AVG is kept exact as the pair <<sum, count>> (NULL over no values); a
\* double-quoted name that is no column is read by SQLite as a string.
SqlExecute(stmt, table) ==
    IF stmt = Queries[4]
        THEN [ok |-> TRUE, err |-> "",
              rows |-> IF table = <<>> THEN <<>>
                       ELSE [i \in 1..Len(table[1].cols) |-> <<Str(table[1].cols[i])>>]]
    ELSE IF table = <<>> THEN [ok |-> FALSE, err |-> "OperationalError", rows |-> <<>>]
    ELSE LET t == table[1] IN
         IF stmt = Queries[1]
            THEN [ok |-> TRUE, err |-> "",
                  rows |-> [i \in 1..Len(t.rows) |->
                              [j \in 1..Len(t.cols) |-> t.rows[i][t.cols[j]]]]]
         ELSE IF stmt = Queries[2]
            THEN IF ~HasCol(t, "MC_GBP_Billion")
                    THEN [ok |-> FALSE, err |-> "OperationalError", rows |-> <<>>]
                 ELSE [ok |-> TRUE, err |-> "",
                       rows |-> << IF CountCol(t.rows, "MC_GBP_Billion") = 0
                                      THEN <<Null>>
                                   ELSE << Num(SumCol(t.rows, "MC_GBP_Billion", 1)),
                                           Num(CountCol(t.rows, "MC_GBP_Billion")) >> >>]
         ELSE [ok |-> TRUE, err |-> "",
               rows |-> [i \in 1..(IF Len(t.rows) < RowLimit THEN Len(t.rows) ELSE RowLimit) |->
                           << IF HasCol(t, BankName) THEN t.rows[i][BankName]
                              ELSE Str(BankName) >>]]

----------------------------------------------------------------------------
(* log_progress and the messages *)

MsgPreliminaries == "Preliminaries complete. Initiating ETL process"

MsgExtracted == "Data extraction complete. Initiating Transformation process"

MsgTransformed == "Data transformation complete. Initiating Loading process"

MsgCsv == "Data saved to CSV file"

MsgConnected == "SQL Connection initiated"

MsgLoaded == "Data loaded to Database as a table, Executing queries"

MsgComplete == "Process Complete"

MsgClosed == "Server Connection closed"

\* Faulty variant of LogProgress: the file is opened for writing, not appending.
LogProgressTruncating(lines, message) == <<message>>

\* logging.basicConfig(filename=...) opens the file in append mode.
LogProgress(lines, message) == Append(lines, message)

----------------------------------------------------------------------------
(* Inputs: tables, documents, rate files, what earlier runs left behind *)

Names == <<"JPMorgan Chase", "Bank of America", "ICBC", "HSBC", "Wells Fargo">>

McValues == {Num(25), Num(50), Num(150), Num(10000), NaN}

PlainCols == <<BankName, MC>>

StaleCols == <<BankName, "MC_GBP_Billion", MC>>

NoMcCols == <<BankName>>

PlainRow(i, m) == (BankName :> Str(Names[i])) @@ (MC :> m)

StaleRow(i, m) == PlainRow(i, m) @@ ("MC_GBP_Billion" :> Num(7))

NoMcRow(i) == (BankName :> Str(Names[i]))

TablesOfLen(n) ==
    UNION { { [cols |-> PlainCols, rows |-> [i \in 1..n |-> PlainRow(i, ms[i])]],
              [cols |-> StaleCols, rows |-> [i \in 1..n |-> StaleRow(i, ms[i])]] }
            : ms \in [1..n -> McValues] }
    \cup { [cols |-> NoMcCols, rows |-> [i \in 1..n |-> NoMcRow(i)]] }

Tables == UNION { TablesOfLen(n) : n \in 0..MaxRows }

SampleTable == [cols |-> PlainCols, rows |-> <<PlainRow(1, Num(10000))>>]

Wiki(t) == [class |-> "wikitable", wellFormed |-> TRUE, table |-> t]

BrokenWiki == [class |-> "wikitable", wellFormed |-> FALSE, table |-> EmptyFrame]

Sortable == [class |-> "sortable", wellFormed |-> TRUE,
             table |-> [cols |-> NoMcCols, rows |-> <<NoMcRow(5)>>]]

Documents ==
    { <<>>, <<Sortable>>, <<BrokenWiki>>, <<Sortable, Wiki(SampleTable)>>,
      <<Wiki(SampleTable), Wiki(EmptyFrame)>> }
    \cup { <<Wiki(t)>> : t \in Tables }

Webs ==
    { [fetch |-> "ConnectionError", doc |-> <<>>],
      [fetch |-> "HTTPError", doc |-> <<>>] }
    \cup { [fetch |-> "ok", doc |-> d] : d \in Documents }

SampleRates == ("GBP" :> 80) @@ ("EUR" :> 93) @@ ("INR" :> 8295)

OtherRates == ("GBP" :> 79) @@ ("EUR" :> 94) @@ ("INR" :> 8301) @@ ("JPY" :> 14750)

Without(rates, cur) == [c \in DOMAIN rates \ {cur} |-> rates[c]]

RateFiles ==
    { [kind |-> "missing", rates |-> <<>>], [kind |-> "malformed", rates |-> <<>>] }
    \cup { [kind |-> "ok", rates |-> r] :
             r \in {SampleRates, OtherRates}
                   \cup { Without(SampleRates, Currencies[k]) : k \in 1..Len(Currencies) } }

OldFrame ==
    [cols |-> <<BankName, MC, "MC_GBP_Billion", "MC_EUR_Billion", "MC_INR_Billion">>,
     rows |-> << PlainRow(4, Num(300)) @@ ("MC_GBP_Billion" :> Num(240))
                 @@ ("MC_EUR_Billion" :> Num(279)) @@ ("MC_INR_Billion" :> Num(24885)),
                 PlainRow(5, NaN) @@ ("MC_GBP_Billion" :> NaN)
                 @@ ("MC_EUR_Billion" :> NaN) @@ ("MC_INR_Billion" :> NaN) >>]

FullRunLog ==
    << MsgPreliminaries, MsgExtracted, MsgTransformed, MsgCsv, MsgConnected,
       MsgLoaded, MsgComplete, MsgClosed >>

\* What is on disk when the process starts: nothing, the artifacts of a run
\* that completed, or those of a run that stopped while loading the table.
PriorStates ==
    { [csv |-> <<>>, db |-> <<>>, log |-> <<>>],
      [csv |-> <<ToCsv(OldFrame)>>, db |-> ToSql(OldFrame, <<>>, "replace").df,
       log |-> FullRunLog],
      [csv |-> <<ToCsv(OldFrame)>>,
       db |-> <<[cols |-> OldFrame.cols, rows |-> <<>>]>>,
       log |-> SubSeq(FullRunLog, 1, 5)] }

----------------------------------------------------------------------------
(* The __main__ block *)

Stages ==
    << "extract", "transform", "load_to_csv", "load_to_db",
       "query_1", "query_2", "query_3", "query_4", "finish" >>

QueryStage(i) == Stages[4 + i]

StageIndex(stage) == CHOOSE i \in 1..Len(Stages) : Stages[i] = stage

\* Faulty variant of NextStage: the queries are issued before the table is loaded.
NextStageQueryFirst(stage) ==
    CASE stage = "load_to_csv" -> "query_1"
      [] stage = "query_4" -> "load_to_db"
      [] stage = "load_to_db" -> "finish"
      [] OTHER -> Stages[StageIndex(stage) + 1]

\* The statement after the call at `stage`.
NextStage(stage) == Stages[StageIndex(stage) + 1]

\* Faulty variant of Advance: the exception is swallowed and the run goes on.
AdvanceSwallowing(stage, err) == NextStage(stage)

\* An exception is caught nowhere: it ends the process at the failing call.
Advance(stage, err) == IF err = "" THEN NextStage(stage) ELSE "failed"

Init ==
    /\ pc = "start"
    /\ web \in Webs
    /\ rateFile \in RateFiles
    /\ raw = <<>>
    /\ df = <<>>
    /\ \E prior \in PriorStates :
          /\ csvFile = prior.csv
          /\ dbTable = prior.db
          /\ log = prior.log
          /\ log0 = prior.log
    /\ conns = {}
    /\ peakOpen = 0
    /\ calls = <<>>
    /\ stdout = <<>>
    /\ error = ""

\* Lines 134-136: open the driver's connection, log the first line.
Preliminaries ==
    /\ pc = "start"
    /\ \E connected \in BOOLEAN :
          IF connected
             THEN /\ conns' = conns \cup {"main"}
                  /\ peakOpen' = Max(peakOpen, Cardinality(conns \cup {"main"}))
                  /\ log' = LogProgress(log, MsgPreliminaries)
                  /\ error' = ""
                  /\ pc' = Stages[1]
             ELSE /\ error' = "OperationalError"
                  /\ pc' = "failed"
                  /\ UNCHANGED <<conns, peakOpen, log>>
    /\ UNCHANGED <<web, rateFile, raw, df, csvFile, dbTable, log0, calls, stdout>>

\* extract(url): lines 35-44. The log line is written once the document is
\* fetched and searched, before pd.read_html parses str(table).
extract(site, attribs) ==
    IF site.fetch # "ok"
       THEN /\ error' = site.fetch
            /\ UNCHANGED <<raw, log>>
       ELSE LET table == SoupFind(site.doc, attribs)
                parsed == ReadHtml(StrOf(table))
            IN  /\ log' = LogProgress(log, MsgExtracted)
                /\ error' = parsed.err
                /\ raw' = parsed.df

\* Line 139: df = extract(url)
ExtractStage ==
    /\ pc = "extract"
    /\ calls' = Append(calls, "extract")
    /\ extract(web, DefaultAttribs)
    /\ df' = raw'
    /\ pc' = Advance("extract", error')
    /\ UNCHANGED <<web, rateFile, csvFile, dbTable, log0, conns, peakOpen, stdout>>

\* transform(df): lines 57-71. df.assign builds a new frame, the argument
\* object is left as it was; the log line follows the assignment.
transform(frame, rf) ==
    LET result == Transform(frame, rf)
    IN  /\ error' = result.err
        /\ df' = result.df
        /\ log' = IF result.ok THEN LogProgress(log, MsgTransformed) ELSE log

\* Line 140: df = transform(df)
TransformStage ==
    /\ pc = "transform"
    /\ calls' = Append(calls, "transform")
    /\ transform(df[1], rateFile)
    /\ pc' = Advance("transform", error')
    /\ UNCHANGED <<web, rateFile, raw, csvFile, dbTable, log0, conns, peakOpen, stdout>>

\* load_to_csv(df): lines 82-86. The write can fail before the file is
\* opened (the old file stays) or after it was truncated.
load_to_csv(frame, io) ==
    CASE io = "ok" ->
            /\ csvFile' = <<ToCsv(frame)>>
            /\ log' = LogProgress(log, MsgCsv)
            /\ error' = ""
      [] io = "open_fails" ->
            /\ error' = "OSError"
            /\ UNCHANGED <<csvFile, log>>
      [] io = "write_fails" ->
            /\ csvFile' = <<EmptyFrame>>
            /\ error' = "OSError"
            /\ UNCHANGED log

\* Line 141: load_to_csv(df)
LoadToCsvStage ==
    /\ pc = "load_to_csv"
    /\ calls' = Append(calls, "load_to_csv")
    /\ \E io \in {"ok", "open_fails", "write_fails"} : load_to_csv(df[1], io)
    /\ pc' = Advance("load_to_csv", error')
    /\ UNCHANGED <<web, rateFile, raw, df, dbTable, log0, conns, peakOpen, stdout>>

\* load_to_db(df, sql_connection): lines 98-106. Without a connection the
\* function opens its own and never closes it: it stays open until the
\* interpreter finalises the unreferenced object (`finalised`), which may be
\* at once or not at all. A failing to_sql leaves the old table, no table
\* (dropped) or the new empty table.
load_to_db(frame, given, io, finalised) ==
    IF io = "connect_fails"
       THEN /\ ~given
            /\ error' = "OperationalError"
            /\ UNCHANGED <<dbTable, log, conns, peakOpen>>
       ELSE LET open == IF given THEN conns ELSE conns \cup {"load_to_db"} IN
            /\ peakOpen' = Max(peakOpen, Cardinality(open))
            /\ conns' = IF finalised THEN conns ELSE open
            /\ CASE io = "ok" ->
                       LET written == ToSql(frame, dbTable, "replace") IN
                       /\ dbTable' = written.df
                       /\ error' = written.err
                       /\ log' = LogProgress(LogProgress(log, MsgConnected), MsgLoaded)
                 [] io = "fails_early" ->
                       /\ error' = "DatabaseError"
                       /\ log' = LogProgress(log, MsgConnected)
                       /\ UNCHANGED dbTable
                 [] io = "fails_dropped" ->
                       /\ error' = "DatabaseError"
                       /\ log' = LogProgress(log, MsgConnected)
                       /\ dbTable' = <<>>
                 [] io = "fails_created" ->
                       /\ error' = "DatabaseError"
                       /\ log' = LogProgress(log, MsgConnected)
                       /\ dbTable' = <<[cols |-> frame.cols, rows |-> <<>>]>>

DbOutcomes == {"ok", "connect_fails", "fails_early", "fails_dropped", "fails_created"}

\* Line 142: load_to_db(df), called without the driver's connection.
LoadToDbStage ==
    /\ pc = "load_to_db"
    /\ calls' = Append(calls, "load_to_db")
    /\ \E io \in DbOutcomes, finalised \in BOOLEAN :
          load_to_db(df[1], FALSE, io, finalised)
    /\ pc' = Advance("load_to_db", error')
    /\ UNCHANGED <<web, rateFile, raw, df, csvFile, log0, stdout>>

\* run_query(statement, sql_connection): lines 117-125.
run_query(statement, given, works, finalised) ==
    LET open == IF given THEN conns ELSE conns \cup {"run_query"}
        result == SqlExecute(statement, dbTable)
    IN  /\ peakOpen' = Max(peakOpen, Cardinality(open))
        /\ conns' = IF finalised THEN conns ELSE open
        /\ IF works /\ result.ok
              THEN /\ stdout' = Append(stdout, <<statement, result.rows>>)
                   /\ error' = ""
              ELSE /\ error' = "OperationalError"
                   /\ UNCHANGED stdout

\* Lines 145-158: run_query(query_i, sql_connection)
RunQueryStage ==
    \E i \in 1..Len(Queries) :
        /\ pc = QueryStage(i)
        /\ calls' = Append(calls, QueryStage(i))
        /\ \E works \in BOOLEAN : run_query(Queries[i], TRUE, works, TRUE)
        /\ pc' = Advance(QueryStage(i), error')
        /\ UNCHANGED <<web, rateFile, raw, df, csvFile, dbTable, log, log0>>

\* Lines 160-162: log, close the driver's connection, log.
Finish ==
    /\ pc = "finish"
    /\ conns' = conns \ {"main"}
    /\ log' = LogProgress(LogProgress(log, MsgComplete), MsgClosed)
    /\ pc' = "done"
    /\ error' = ""
    /\ UNCHANGED <<web, rateFile, raw, df, csvFile, dbTable, log0, peakOpen,
                   calls, stdout>>

Next ==
    \/ Preliminaries
    \/ ExtractStage
    \/ TransformStage
    \/ LoadToCsvStage
    \/ LoadToDbStage
    \/ RunQueryStage
    \/ Finish

Spec == Init /\ [][Next]_vars

----------------------------------------------------------------------------
(* load_to_db as a library function: a caller loads the same frame again and
   again into a database that holds anything *)

PriorTables ==
    { <<>>,
      <<[cols |-> OldFrame.cols, rows |-> <<>>]>>,
      ToSql(OldFrame, <<>>, "replace").df,
      ToSql(SampleTable, <<>>, "replace").df }

LoadInit ==
    /\ pc = "caller"
    /\ web = [fetch |-> "ok", doc |-> <<>>]
    /\ rateFile = [kind |-> "missing", rates |-> <<>>]
    /\ raw = <<>>
    /\ df \in { <<t>> : t \in Tables }
    /\ csvFile = <<>>
    /\ dbTable \in PriorTables
    /\ log = <<>>
    /\ log0 = <<>>
    /\ conns \in { {}, {"main"} }
    /\ peakOpen = Cardinality(conns)
    /\ calls = <<>>
    /\ stdout = <<>>
    /\ error = ""

\* load_to_db(df) or load_to_db(df, sql_connection), at most MaxCalls times.
CallLoadToDb ==
    /\ pc = "caller"
    /\ Len(calls) < MaxCalls
    /\ calls' = Append(calls, "load_to_db")
    /\ \E given \in BOOLEAN, io \in DbOutcomes, finalised \in BOOLEAN :
          /\ given => "main" \in conns
          /\ load_to_db(df[1], given, io, finalised)
    /\ UNCHANGED <<pc, web, rateFile, raw, df, csvFile, log0, stdout>>

LoadNext == CallLoadToDb

SpecLoad == LoadInit /\ [][LoadNext]_vars

----------------------------------------------------------------------------
(* Properties *)

\* The lines this process appended to code_log.txt.
RunLog == SubSeq(log, Len(log0) + 1, Len(log))

Count(seq, x) == Cardinality({i \in 1..Len(seq) : seq[i] = x})

\* transform was called and returned.
TransformReturned == Len(calls) > 2 \/ (Len(calls) = 2 /\ error = "")

\* extract was called and returned.
ExtractReturned == Len(calls) > 1 \/ (Len(calls) = 1 /\ error = "")

DerivedNames == {"MC_GBP_Billion", "MC_EUR_Billion", "MC_INR_Billion"}

\* The table of the first wikitable element of the fetched document.
FetchedTable ==
    LET i == CHOOSE i \in 1..Len(web.doc) :
                 /\ web.doc[i].class = "wikitable"
                 /\ \A j \in 1..(i - 1) : web.doc[j].class # "wikitable"
    IN  web.doc[i].table

\* C1: transform returns a table whenever its input has the market cap
\* column and the rates hold GBP, EUR and INR; and whenever it returns, every
\* row's MC_GBP_Billion, MC_EUR_Billion
\* and MC_INR_Billion is the row's USD market cap times the currency's rate
\* rounded to 2 decimal places: a number within half a hundredth of the
\* exact product (NaN for a missing market cap); and a market cap of 100
\* with rates 0.8, 0.93, 82.95 gives 80.0, 93.0, 8295.0.
C1_DerivedColumns ==
    /\ (/\ Len(calls) >= 2
        /\ rateFile.kind = "ok"
        /\ {"GBP", "EUR", "INR"} \subseteq DOMAIN rateFile.rates
        /\ MC \in Range(raw[1].cols)) => TransformReturned
    /\ TransformReturned =>
        /\ Len(df[1].rows) = Len(raw[1].rows)
        /\ \A i \in 1..Len(raw[1].rows) : \A k \in 1..3 :
              LET cur == <<"GBP", "EUR", "INR">>[k]
                  col == <<"MC_GBP_Billion", "MC_EUR_Billion", "MC_INR_Billion">>[k]
                  m == raw[1].rows[i][MC]
                  d == df[1].rows[i][col]
                  exact == m.n * rateFile.rates[cur]
              IN  /\ m.k = "num" =>
                        /\ d.k = "num"
                        /\ 100 * d.n - exact \in -50..50
                  /\ m.k = "nan" => d.k = "nan"
                  /\ (m = Num(10000) /\ rateFile.rates = SampleRates) =>
                        d = Num(<<8000, 9300, 829500>>[k])

\* C1 witness: transform returned a two-row table whose first market cap,
\* 0.25, times the INR rate 83.01 had to be rounded (20.7525 -> 20.75).
C1_Witness ==
    /\ TransformReturned
    /\ Len(raw[1].rows) = 2
    /\ raw[1].rows[1][MC] = Num(25)
    /\ rateFile.rates = OtherRates
    /\ df[1].rows[1]["MC_INR_Billion"] = Num(2075)
    /\ df[1].rows[1]["MC_GBP_Billion"] = Num(20)

C3_ReplaceSemantics ==
    /\ [](  (calls # <<>> /\ error = "") =>
               /\ dbTable # <<>>
               /\ dbTable[1].cols = df[1].cols
               /\ Len(dbTable[1].rows) = Len(df[1].rows)
               /\ \A i \in 1..Len(df[1].rows) : \A c \in Range(df[1].cols) :
                     \/ dbTable[1].rows[i][c] = df[1].rows[i][c]
                     \/ /\ df[1].rows[i][c].k = "nan"
                        /\ dbTable[1].rows[i][c].k = "null" )
    /\ [][ (calls # <<>> /\ error = "" /\ calls' # calls /\ error' = "")
             => dbTable' = dbTable ]_vars

\* C3 witness: the second load_to_db of a two-row frame completed on a
\* database that first held the two rows of another table.
C3_Witness ==
    /\ Len(calls) = 2
    /\ error = ""
    /\ log = <<MsgConnected, MsgLoaded, MsgConnected, MsgLoaded>>
    /\ Len(df[1].rows) = 2
    /\ Len(dbTable[1].rows) = 2
    /\ df[1].rows[2][BankName] = dbTable[1].rows[2][BankName]

\* GBP, EUR or INR is absent from the rate mapping read from the file.
RateMissing ==
    /\ rateFile.kind = "ok"
    /\ \E cur \in {"GBP", "EUR", "INR"} : cur \notin DOMAIN rateFile.rates

\* C4: once transform has been called with a rate mapping that lacks GBP,
\* EUR or INR, it has failed: it returned no table, the run stopped at it,
\* and its progress line is not among the lines the run logged.
C4_MissingRateFails ==
    (Len(calls) >= 2 /\ RateMissing) =>
        /\ df = <<>>
        /\ error # ""
        /\ pc = "failed"
        /\ calls[Len(calls)] = "transform"
        /\ Count(RunLog, "Data transformation complete. Initiating Loading process") = 0

\* C4 witness: transform was called on a two-row table holding the market
\* cap column, with a rate mapping holding GBP and EUR but not INR.
C4_Witness ==
    /\ Len(calls) = 2
    /\ rateFile.kind = "ok"
    /\ DOMAIN rateFile.rates = {"GBP", "EUR"}
    /\ Len(raw[1].rows) = 2
    /\ MC \in Range(raw[1].cols)
    /\ pc = "failed"

\* The fetched document holds no table element of class wikitable.
NoMatchingTable ==
    /\ web.fetch = "ok"
    /\ \A i \in 1..Len(web.doc) : web.doc[i].class # "wikitable"

\* C5: once extract has been called on a document without a matching table,
\* it has failed with an error and returned no table.
C5_NoTableFails ==
    (calls # <<>> /\ NoMatchingTable) =>
        /\ raw = <<>>
        /\ df = <<>>
        /\ error # ""
        /\ pc = "failed"
        /\ calls = <<"extract">>

\* C5 witness: extract was called on a fetched document that holds a table,
\* but none of class wikitable.
C5_Witness ==
    /\ calls # <<>>
    /\ NoMatchingTable
    /\ web.doc # <<>>
    /\ error = "ValueError"

\* C6 as stated: once extract has been called, the run's log holds the line
\* "Data extraction complete. Initiating Transformation process" once if
\* extract returned a table, and not at all if it failed.
C6_LogsOnSuccessOnly ==
    calls # <<>> =>
        Count(RunLog, "Data extraction complete. Initiating Transformation process")
            = (IF ExtractReturned THEN 1 ELSE 0)

\* The order in which the driver is to invoke its stages.
ExpectedOrder ==
    << "extract", "transform", "load_to_csv", "load_to_db",
       "query_1", "query_2", "query_3", "query_4" >>

ExpectedStatements ==
    << "SELECT * FROM Largest_banks",
       "SELECT AVG(MC_GBP_Billion) FROM Largest_banks",
       "SELECT \"Bank name\" from Largest_banks LIMIT 5",
       "PRAGMA table_info(Largest_banks);" >>

C8_FailFastNoRollback ==
    [][ /\ error' # "" => pc' = "failed"
        /\ pc # "failed"
        /\ pc # "load_to_csv" => csvFile' = csvFile
        /\ pc # "load_to_db" => dbTable' = dbTable
        /\ pc' = "failed" => Len(calls') = Len(calls) + (IF pc = "start" THEN 0 ELSE 1)
      ]_vars

\* C8 witness: the run failed at query 2 with the CSV file and the two-row
\* table written by this run in place.
C8_Witness ==
    /\ pc = "failed"
    /\ Len(calls) = 6
    /\ calls[6] = "query_2"
    /\ Len(stdout) = 1
    /\ csvFile # <<>>
    /\ Len(csvFile[1].rows) = 2
    /\ Len(csvFile[1].cols) = Len(df[1].cols)
    /\ dbTable # <<>>
    /\ Len(dbTable[1].rows) = 2
    /\ log0 = <<>>

\* C9 as stated: when the driver is at Done no connection is open, and never
\* was more than one connection open at a time.
C9_ConnectionsClosed ==
    pc = "done" => (conns = {} /\ peakOpen <= 1)

\* C10: the log only grows (what it held stays, in place); the lines a run
\* appends are an initial part of the eight lines in their order; at Done
\* they are exactly the eight; the load-complete line is there only with the
\* connection line before it and the table written, and the connection line
\* is the last one only when the write failed; and "Server Connection
\* closed" is there only when the driver's connection is closed.
C10_LogTrail ==
    /\ [](  /\ IsPrefix(log0, log)
            /\ IsPrefix(RunLog,
                   << "Preliminaries complete. Initiating ETL process",
                      "Data extraction complete. Initiating Transformation process",
                      "Data transformation complete. Initiating Loading process",
                      "Data saved to CSV file",
                      "SQL Connection initiated",
                      "Data loaded to Database as a table, Executing queries",
                      "Process Complete",
                      "Server Connection closed" >>)
            /\ pc = "done" => Len(RunLog) = 8
            /\ Len(RunLog) = 8 => "main" \notin conns
            /\ Len(RunLog) >= 6 =>
                  /\ dbTable # <<>>
                  /\ Len(dbTable[1].rows) = Len(df[1].rows)
            /\ Len(RunLog) = 5 => pc = "failed" )
    /\ [][ IsPrefix(log, log') ]_vars

\* C10 witness: a run that started on the log of an earlier complete run is
\* done and the log holds sixteen lines.
C10_Witness ==
    /\ pc = "done"
    /\ Len(log0) = 8
    /\ Len(log) = 16
    /\ log[16] = "Server Connection closed"
    /\ conns = {}

====
